---- MODULE Spec2Model ----
(***************************************************************************)
(* tf2onnx.convert: the command line driver that turns a TensorFlow model  *)
(* into an ONNX model.  One run of main() is modelled as a state machine:  *)
(* get_args(), the custom op resolver, the five source branches, the       *)
(* rename cascade, graph preparation, conversion, model building and the   *)
(* final write.                                                            *)
(*                                                                         *)
(* Python strings are sequences of atoms.  An atom is either a separator   *)
(* character ("," or ":") or a separator-free piece of text, so that       *)
(* str.split and the `":" in op` test are computed as Python computes      *)
(* them.  A Python value that may be None and otherwise is a list or a     *)
(* string is a record [some, v]; file paths and opaque objects are TLA+    *)
(* strings with "None" for None.                                           *)
(***************************************************************************)
EXTENDS Integers, Sequences, FiniteSets, TLC

VARIABLES
    argv,                \* the command line as argparse returns it (line 85)
    model,               \* what the source model on disk declares (signature)
    pc,                  \* position of main()
    args,                \* the namespace get_args() returns
    extra_opset,         \* main: extra_opset
    tflite_path,         \* main: tflite_path
    custom_ops,          \* main: custom_ops (op name -> domain of its handler)
    initialized_tables,  \* main: initialized_tables
    tensors_to_rename,   \* main: tensors_to_rename
    graph_def,           \* main: graph_def
    inputs,              \* main: inputs
    outputs,             \* main: outputs
    model_path,          \* main: model_path
    tf_graph,            \* main: tf_graph
    const_node_values,   \* main: const_node_values
    tensor_storage,      \* main: tensor_storage
    model_proto,         \* main: model_proto
    loader_calls,        \* calls made to tf_loader.from_*, in order
    branches,            \* source branches of lines 165-185 that were taken
    origin,              \* which source branch last assigned each local
    compress_calls,      \* calls made to compress_graph_def
    imported,            \* tf.import_graph_def was called
    dispatched,          \* calls made to process_tf_graph, with their arguments
    writes,              \* files written, in order
    exit_code,           \* process exit status ("running" until it ends)
    exit_reason          \* why the process ended

vars == <<argv, model, pc, args, extra_opset, tflite_path, custom_ops,
          initialized_tables, tensors_to_rename, graph_def, inputs, outputs,
          model_path, tf_graph, const_node_values, tensor_storage, model_proto,
          loader_calls, branches, origin, compress_calls, imported, dispatched,
          writes, exit_code, exit_reason>>

-----------------------------------------------------------------------------
(* Bounds of the model *)

\* longest --custom-ops string, in atoms
MaxCustomOpsLen == 5
\* longest --extra_opset string, in atoms
MaxExtraOpsetLen == 3
\* longest --rename-inputs string, in atoms
MaxRenameInputsLen == 3
\* longest --rename-outputs string, in atoms
MaxRenameOutputsLen == 1
\* most inputs a signature declares
MaxInputs == 2
\* most outputs a signature declares
MaxOutputs == 1

-----------------------------------------------------------------------------
(* Python values *)

None == "None"
NoneV == [some |-> FALSE, v |-> <<>>]
Some(x) == [some |-> TRUE, v |-> x]

\* Python truth of an optional string or list: None and the empty value are false
Truthy(o) == o.some /\ o.v # <<>>

\* Python truth of a path argument
Given(p) == p # None

EmptyDict == [k \in {} |-> <<>>]

\* d[k] = v
Put(d, k, v) == [x \in (DOMAIN d) \cup {k} |-> IF x = k THEN v ELSE d[x]]

\* dict.update(zip(keys, vals)): pairs in order, zip stops at the shorter list
RECURSIVE UpdateZip(_, _, _)
UpdateZip(d, keys, vals) ==
    IF keys = <<>> \/ vals = <<>> THEN d
    ELSE UpdateZip(Put(d, Head(keys), Head(vals)), Tail(keys), Tail(vals))

\* sep in s
Contains(s, sep) == \E i \in 1..Len(s) : s[i] = sep

\* s.split(sep)
RECURSIVE Split(_, _)
Split(s, sep) ==
    IF ~Contains(s, sep) THEN <<s>>
    ELSE LET i == CHOOSE i \in 1..Len(s) :
                     s[i] = sep /\ \A j \in 1..(i - 1) : s[j] # sep
         IN  <<SubSeq(s, 1, i - 1)>> \o Split(SubSeq(s, i + 1, Len(s)), sep)

Digits == {"1", "2"}
DigitVal(a) == IF a = "1" THEN 1 ELSE 2

\* int(s) raises ValueError
IntFails(s) == s = <<>> \/ \E i \in 1..Len(s) : s[i] \notin Digits

\* int(s)
RECURSIVE IntOf(_)
IntOf(s) ==
    IF s = <<>> THEN 0
    ELSE 10 * IntOf(SubSeq(s, 1, Len(s) - 1)) + DigitVal(s[Len(s)])

\* utils.make_opsetid(domain, version)
make_opsetid(domain, version) == [domain |-> domain, version |-> version]

\* constants.TENSORFLOW_OPSET
TENSORFLOW_DOMAIN == <<"ai.onnx.converters.tensorflow">>
TENSORFLOW_OPSET == make_opsetid(TENSORFLOW_DOMAIN, 1)

\* all strings of at most n atoms over an alphabet
Strings(alphabet, n) == UNION {[1..k -> alphabet] : k \in 0..n}

-----------------------------------------------------------------------------
(* get_args *)

\* any([args.graphdef, args.checkpoint, args.saved_model, args.keras, args.tflite])
AnySource(a) ==
    Given(a.graphdef) \/ Given(a.checkpoint) \/ Given(a.saved_model)
        \/ Given(a.keras) \/ Given(a.tflite)

\* lines 88-90: --input is the old name of --graphdef
AliasInput(a) == IF Given(a.input) THEN [a EXCEPT !.graphdef = a.input] ELSE a

\* lines 97-108: the comma separated arguments become lists
\* (utils.split_nodename_and_shape splits --inputs at its commas; the shapes it
\* also reads are not modelled)
SplitLists(a) ==
    [a EXCEPT
        !.inputs = IF Truthy(@) THEN Some(Split(@.v, ",")) ELSE @,
        !.outputs = IF Truthy(@) THEN Some(Split(@.v, ",")) ELSE @,
        !.rename_outputs = IF Truthy(@) THEN Some(Split(@.v, ",")) ELSE @,
        !.rename_inputs = IF Truthy(@) THEN Some(Split(@.v, ",")) ELSE @]

\* lines 118-122: --extra_opset domain:version
ExtraOpsetTokens(a) == Split(a.extra_opset.v, ":")

ParseExtraOpset(a) ==
    LET tokens == ExtraOpsetTokens(a)
    IN  [a EXCEPT !.extra_opset =
            Some(<<make_opsetid(tokens[1], IntOf(tokens[2]))>>)]

\* get_args without the check of lines 94-96
GetArgsStatusNoUsage(raw) ==
    LET a == AliasInput(raw)
    IN  IF (Given(a.graphdef) \/ Given(a.checkpoint))
            /\ (~Truthy(a.inputs) \/ ~Truthy(a.outputs))
        THEN "parser_error"
        ELSE IF a.dequantize /\ ~Given(a.tflite) THEN "parser_error"
        ELSE IF Truthy(a.extra_opset) /\ Len(ExtraOpsetTokens(a)) # 2
        THEN "parser_error"
        ELSE IF Truthy(a.extra_opset) /\ IntFails(ExtraOpsetTokens(a)[2])
        THEN "value_error"
        ELSE "ok"

\* the way get_args ends: "ok", or the error it stops at
GetArgsStatus(raw) ==
    LET a == AliasInput(raw)
    IN  IF (Given(a.graphdef) \/ Given(a.checkpoint))
            /\ (~Truthy(a.inputs) \/ ~Truthy(a.outputs))
        THEN "parser_error"
        ELSE IF ~AnySource(a) THEN "usage"
        ELSE IF a.dequantize /\ ~Given(a.tflite) THEN "parser_error"
        ELSE IF Truthy(a.extra_opset) /\ Len(ExtraOpsetTokens(a)) # 2
        THEN "parser_error"
        ELSE IF Truthy(a.extra_opset) /\ IntFails(ExtraOpsetTokens(a)[2])
        THEN "value_error"
        ELSE "ok"

\* the namespace get_args returns
GetArgsResult(raw) ==
    LET a == SplitLists(AliasInput(raw))
    IN  IF Truthy(a.extra_opset) THEN ParseExtraOpset(a) ELSE a

\* exit status: 2 for parser.error, 1 for sys.exit(1) and an uncaught exception
ExitCodeOf(status) ==
    IF status = "parser_error" THEN "2" ELSE IF status = "ok" THEN "0" ELSE "1"

\* the process ends without finishing main
Abort(reason) ==
    /\ pc' = "exit"
    /\ exit_reason' = reason
    /\ exit_code' = ExitCodeOf(reason)

GetArgs ==
    /\ pc = "get_args"
    /\ LET status == GetArgsStatus(argv)
       IN  IF status = "ok"
           THEN /\ args' = GetArgsResult(argv)
                /\ pc' = "custom_ops"
                /\ UNCHANGED <<exit_code, exit_reason>>
           ELSE /\ Abort(status)
                /\ UNCHANGED args
    /\ UNCHANGED <<argv, model, extra_opset, tflite_path, custom_ops,
                   initialized_tables, tensors_to_rename, graph_def, inputs,
                   outputs, model_path, tf_graph, const_node_values,
                   tensor_storage, model_proto, loader_calls, branches, origin,
                   compress_calls, imported, dispatched, writes>>

-----------------------------------------------------------------------------
(* main, lines 140-156: custom operators and extra opsets *)

\* the loop of lines 147-154 over the tokens left, st = [err, custom_ops, using_tf_opset]
RECURSIVE ResolveTokens(_, _)
ResolveTokens(tokens, st) ==
    IF tokens = <<>> \/ st.err THEN st
    ELSE LET op == Head(tokens)
         IN  IF Contains(op, ":")
             THEN LET parts == Split(op, ":")
                  IN  IF Len(parts) # 2
                      THEN [st EXCEPT !.err = TRUE]
                      ELSE ResolveTokens(Tail(tokens),
                              [st EXCEPT !.custom_ops = Put(@, parts[1], parts[2])])
             ELSE ResolveTokens(Tail(tokens),
                     [st EXCEPT !.using_tf_opset = TRUE,
                                !.custom_ops = Put(@, op, TENSORFLOW_DOMAIN)])

\* lines 145-154
ResolveCustomOps(a) ==
    LET st0 == [err |-> FALSE, custom_ops |-> EmptyDict, using_tf_opset |-> FALSE]
    IN  IF Truthy(a.custom_ops)
        THEN ResolveTokens(Split(a.custom_ops.v, ","), st0)
        ELSE st0

\* the tensorflow opset appended whatever the tokens were
ExtraOpsetsAlways(a, using_tf_opset) ==
    (IF Truthy(a.extra_opset) THEN a.extra_opset.v ELSE <<>>) \o <<TENSORFLOW_OPSET>>

\* line 140 and lines 155-156
ExtraOpsets(a, using_tf_opset) ==
    (IF Truthy(a.extra_opset) THEN a.extra_opset.v ELSE <<>>)
        \o (IF using_tf_opset THEN <<TENSORFLOW_OPSET>> ELSE <<>>)

\* lines 140-156 (lines 158-162 only log a warning)
CustomOps ==
    /\ pc = "custom_ops"
    /\ LET st == ResolveCustomOps(args)
       IN  IF st.err
           THEN /\ Abort("malformed_custom_op")
                /\ UNCHANGED <<extra_opset, custom_ops>>
           ELSE /\ custom_ops' = st.custom_ops
                /\ extra_opset' = ExtraOpsets(args, st.using_tf_opset)
                /\ pc' = "graphdef"
                /\ UNCHANGED <<exit_code, exit_reason>>
    /\ UNCHANGED <<argv, model, args, tflite_path, initialized_tables,
                   tensors_to_rename, graph_def, inputs, outputs, model_path,
                   tf_graph, const_node_values, tensor_storage, model_proto,
                   loader_calls, branches, origin, compress_calls, imported,
                   dispatched, writes>>

-----------------------------------------------------------------------------
(* main, lines 164-185: the source branches *)

\* what tf_loader.from_graphdef / from_checkpoint return as inputs and outputs:
\* the names the caller passed
GivenNames(a) == [inputs |-> a.inputs, outputs |-> a.outputs]

\* what tf_loader.from_saved_model / from_keras return as inputs and outputs:
\* the names the caller passed, or else the ones the signature declares
DiscoveredNames(a) ==
    [inputs |-> IF Truthy(a.inputs) THEN a.inputs ELSE Some(model.sig_inputs),
     outputs |-> IF Truthy(a.outputs) THEN a.outputs ELSE Some(model.sig_outputs)]

\* a tf_loader call raises: the exception leaves main
LoaderRaises(kind) ==
    /\ loader_calls' = Append(loader_calls, kind)
    /\ Abort("source_error")
    /\ UNCHANGED <<graph_def, inputs, outputs, model_path, initialized_tables,
                   tensors_to_rename, tflite_path, branches, origin>>

\* graph_def, inputs, outputs = tf_loader.from_<kind>(...); model_path = args.<kind>
\* (the graph a loader returns is named after its source kind and is never None)
LoaderReturns(kind, path, names, next) ==
    /\ loader_calls' = Append(loader_calls, kind)
    /\ branches' = branches \cup {kind}
    /\ graph_def' = kind
    /\ inputs' = names.inputs
    /\ outputs' = names.outputs
    /\ model_path' = path
    /\ pc' = next
    /\ UNCHANGED <<exit_code, exit_reason, tflite_path>>

\* the branch is not taken
BranchSkipped(next) ==
    /\ pc' = next
    /\ UNCHANGED <<graph_def, inputs, outputs, model_path, initialized_tables,
                   tensors_to_rename, tflite_path, loader_calls, branches,
                   origin, exit_code, exit_reason>>

OriginOf(kind, with_renames) ==
    [n \in DOMAIN origin |->
        IF n \in {"graph_def", "inputs", "outputs"} THEN kind
        ELSE IF with_renames THEN kind ELSE origin[n]]

\* lines 165-167
LoadGraphdef ==
    /\ pc = "graphdef"
    /\ IF Given(args.graphdef)
       THEN \/ /\ LoaderReturns("graphdef", args.graphdef, GivenNames(args), "checkpoint")
               /\ origin' = OriginOf("graphdef", FALSE)
               /\ UNCHANGED <<initialized_tables, tensors_to_rename>>
            \/ LoaderRaises("graphdef")
       ELSE BranchSkipped("checkpoint")
    /\ UNCHANGED <<argv, model, args, extra_opset, custom_ops, tf_graph,
                   const_node_values, tensor_storage, model_proto,
                   compress_calls, imported, dispatched, writes>>

\* lines 168-170
LoadCheckpoint ==
    /\ pc = "checkpoint"
    /\ IF Given(args.checkpoint)
       THEN \/ /\ LoaderReturns("checkpoint", args.checkpoint, GivenNames(args), "saved_model")
               /\ origin' = OriginOf("checkpoint", FALSE)
               /\ UNCHANGED <<initialized_tables, tensors_to_rename>>
            \/ LoaderRaises("checkpoint")
       ELSE BranchSkipped("saved_model")
    /\ UNCHANGED <<argv, model, args, extra_opset, custom_ops, tf_graph,
                   const_node_values, tensor_storage, model_proto,
                   compress_calls, imported, dispatched, writes>>

\* lines 171-175
LoadSavedModel ==
    /\ pc = "saved_model"
    /\ IF Given(args.saved_model)
       THEN \/ /\ LoaderReturns("saved_model", args.saved_model, DiscoveredNames(args), "keras")
               /\ initialized_tables' = "saved_model_tables"
               /\ tensors_to_rename' = model.sig_renames
               /\ origin' = OriginOf("saved_model", TRUE)
            \/ LoaderRaises("saved_model")
       ELSE BranchSkipped("keras")
    /\ UNCHANGED <<argv, model, args, extra_opset, custom_ops, tf_graph,
                   const_node_values, tensor_storage, model_proto,
                   compress_calls, imported, dispatched, writes>>

\* lines 176-179
LoadKeras ==
    /\ pc = "keras"
    /\ IF Given(args.keras)
       THEN \/ /\ LoaderReturns("keras", args.keras, DiscoveredNames(args), "tflite")
               /\ origin' = OriginOf("keras", FALSE)
               /\ UNCHANGED <<initialized_tables, tensors_to_rename>>
            \/ LoaderRaises("keras")
       ELSE BranchSkipped("tflite")
    /\ UNCHANGED <<argv, model, args, extra_opset, custom_ops, tf_graph,
                   const_node_values, tensor_storage, model_proto,
                   compress_calls, imported, dispatched, writes>>

\* the tflite branch without the assignments of lines 181-183
TfliteLocalsKept == [graph_def |-> graph_def, inputs |-> inputs, outputs |-> outputs]

\* lines 181-183: what the tflite branch leaves in graph_def, inputs and outputs
TfliteLocals == [graph_def |-> None, inputs |-> NoneV, outputs |-> NoneV]

\* lines 180-185
LoadTflite ==
    /\ pc = "tflite"
    /\ IF Given(args.tflite)
       THEN /\ graph_def' = TfliteLocals.graph_def
            /\ inputs' = TfliteLocals.inputs
            /\ outputs' = TfliteLocals.outputs
            /\ tflite_path' = args.tflite
            /\ model_path' = args.tflite
            /\ branches' = branches \cup {"tflite"}
            /\ origin' = OriginOf("tflite", FALSE)
            /\ pc' = "rename"
            /\ UNCHANGED <<initialized_tables, tensors_to_rename, loader_calls,
                           exit_code, exit_reason>>
       ELSE BranchSkipped("rename")
    /\ UNCHANGED <<argv, model, args, extra_opset, custom_ops, tf_graph,
                   const_node_values, tensor_storage, model_proto,
                   compress_calls, imported, dispatched, writes>>

-----------------------------------------------------------------------------
(* main, lines 191-194: the renames of inputs and outputs *)

\* zip(None, ...) raises TypeError
RenameRaises(ins, outs, a) ==
    \/ Truthy(a.rename_inputs) /\ ~ins.some
    \/ Truthy(a.rename_outputs) /\ ~outs.some

\* lines 191-192
RenameInputs(t, ins, a) ==
    IF Truthy(a.rename_inputs) THEN UpdateZip(t, ins.v, a.rename_inputs.v) ELSE t

\* lines 193-194
RenameOutputs(t, outs, a) ==
    IF Truthy(a.rename_outputs) THEN UpdateZip(t, outs.v, a.rename_outputs.v) ELSE t

\* the two updates in the other order
RenameCascadeInputsLast(t, ins, outs, a) ==
    RenameInputs(RenameOutputs(t, outs, a), ins, a)

\* lines 191-194: tensors_to_rename after both updates
RenameCascade(t, ins, outs, a) == RenameOutputs(RenameInputs(t, ins, a), outs, a)

Rename ==
    /\ pc = "rename"
    /\ IF RenameRaises(inputs, outputs, args)
       THEN /\ Abort("type_error")
            /\ UNCHANGED tensors_to_rename
       ELSE /\ tensors_to_rename' = RenameCascade(tensors_to_rename, inputs, outputs, args)
            /\ pc' = "graph"
            /\ UNCHANGED <<exit_code, exit_reason>>
    /\ UNCHANGED <<argv, model, args, extra_opset, tflite_path, custom_ops,
                   initialized_tables, graph_def, inputs, outputs, model_path,
                   tf_graph, const_node_values, tensor_storage, model_proto,
                   loader_calls, branches, origin, compress_calls, imported,
                   dispatched, writes>>

-----------------------------------------------------------------------------
(* main, lines 196-205: the graph handed to conversion *)

\* line 201: compress_graph_def is called
Compresses(a, gd) == gd # None /\ a.large_model

\* lines 203-204: the frozen graph is saved
FrozenGraphWrites(a, gd) ==
    IF gd # None /\ Given(a.output_frozen_graph)
    THEN <<[kind |-> "frozen_graph", path |-> a.output_frozen_graph, storage |-> None]>>
    ELSE <<>>

PrepareGraph ==
    /\ pc = "graph"
    /\ tf_graph' = IF graph_def # None THEN "tf_graph" ELSE None
    /\ const_node_values' =
           IF Compresses(args, graph_def) THEN "const_node_values" ELSE None
    /\ compress_calls' =
           IF Compresses(args, graph_def) THEN Append(compress_calls, graph_def)
           ELSE compress_calls
    /\ writes' = writes \o FrozenGraphWrites(args, graph_def)
    /\ imported' = (graph_def # None)
    /\ pc' = "convert"
    /\ UNCHANGED <<argv, model, args, extra_opset, tflite_path, custom_ops,
                   initialized_tables, tensors_to_rename, graph_def, inputs,
                   outputs, model_path, tensor_storage, model_proto,
                   loader_calls, branches, origin, dispatched, exit_code,
                   exit_reason>>

-----------------------------------------------------------------------------
(* main, lines 207-224: conversion *)

\* the arguments of process_tf_graph that main computes
ConversionCall ==
    [tf_graph |-> tf_graph,
     custom_op_handlers |-> custom_ops,
     extra_opset |-> extra_opset,
     input_names |-> inputs,
     output_names |-> outputs,
     const_node_values |-> const_node_values,
     tensors_to_rename |-> tensors_to_rename,
     initialized_tables |-> initialized_tables,
     tflite_path |-> tflite_path]

\* process_tf_graph may raise unless it was asked to continue on error
ConversionMayRaise(a) == ~a.continue_on_error

Convert ==
    /\ pc = "convert"
    /\ dispatched' = Append(dispatched, ConversionCall)
    /\ \/ /\ pc' = "make_model"
          /\ UNCHANGED <<exit_code, exit_reason>>
       \/ /\ ConversionMayRaise(args)
          /\ Abort("conversion_error")
    /\ UNCHANGED <<argv, model, args, extra_opset, tflite_path, custom_ops,
                   initialized_tables, tensors_to_rename, graph_def, inputs,
                   outputs, model_path, tf_graph, const_node_values,
                   tensor_storage, model_proto, loader_calls, branches, origin,
                   compress_calls, imported, writes>>

-----------------------------------------------------------------------------
(* main, lines 226-244: the ONNX model and its file *)

\* line 228
TensorStorage(a) == IF a.large_model THEN "ExternalTensorStorage" ELSE None

\* lines 226-229
MakeModel ==
    /\ pc = "make_model"
    /\ tensor_storage' = TensorStorage(args)
    /\ model_proto' = "model_proto"
    /\ pc' = "write"
    /\ UNCHANGED <<argv, model, args, extra_opset, tflite_path, custom_ops,
                   initialized_tables, tensors_to_rename, graph_def, inputs,
                   outputs, model_path, tf_graph, const_node_values,
                   loader_calls, branches, origin, compress_calls, imported,
                   dispatched, writes, exit_code, exit_reason>>

\* the single file written in large model mode too
SaveKindSingleFile(a) == "onnx_protobuf"

\* lines 237-241: the function that saves the model
SaveKind(a) == IF a.large_model THEN "onnx_zip" ELSE "onnx_protobuf"

\* the save may raise: a single file has a size ceiling, and nothing is written then
SaveMayRaise(a) == SaveKind(a) = "onnx_protobuf"

\* the file utils.save_onnx_zip or utils.save_protobuf writes
OutputWrite(a, storage) ==
    [kind |-> SaveKind(a), path |-> a.output,
     storage |-> IF SaveKind(a) = "onnx_zip" THEN storage ELSE None]

\* main returns
Finish ==
    /\ pc' = "done"
    /\ exit_code' = ExitCodeOf("ok")
    /\ exit_reason' = "ok"

\* a failed save that leaves its file behind
WriteOutputLeavesFile ==
    /\ pc = "write"
    /\ IF Given(args.output)
       THEN /\ writes' = Append(writes, OutputWrite(args, tensor_storage))
            /\ \/ Finish
               \/ /\ SaveMayRaise(args)
                  /\ Abort("size_exceeded")
       ELSE /\ Finish
            /\ UNCHANGED writes
    /\ UNCHANGED <<argv, model, args, extra_opset, tflite_path, custom_ops,
                   initialized_tables, tensors_to_rename, graph_def, inputs,
                   outputs, model_path, tf_graph, const_node_values,
                   tensor_storage, model_proto, loader_calls, branches, origin,
                   compress_calls, imported, dispatched>>

\* lines 236-244
WriteOutput ==
    /\ pc = "write"
    /\ IF Given(args.output)
       THEN \/ /\ writes' = Append(writes, OutputWrite(args, tensor_storage))
               /\ Finish
            \/ /\ SaveMayRaise(args)
               /\ Abort("size_exceeded")
               /\ UNCHANGED writes
       ELSE /\ Finish
            /\ UNCHANGED writes
    /\ UNCHANGED <<argv, model, args, extra_opset, tflite_path, custom_ops,
                   initialized_tables, tensors_to_rename, graph_def, inputs,
                   outputs, model_path, tf_graph, const_node_values,
                   tensor_storage, model_proto, loader_calls, branches, origin,
                   compress_calls, imported, dispatched>>

-----------------------------------------------------------------------------
(* Command lines and source models *)

Opt(S) == {NoneV} \cup {Some(s) : s \in S}
Path(p) == {None, p}

MkArgv(sel, io, ren, flag, ops) ==
    [input |-> sel.input, graphdef |-> sel.graphdef, checkpoint |-> sel.checkpoint,
     saved_model |-> sel.saved_model, keras |-> sel.keras, tflite |-> sel.tflite,
     inputs |-> io.inputs, outputs |-> io.outputs,
     rename_inputs |-> ren.rename_inputs, rename_outputs |-> ren.rename_outputs,
     large_model |-> flag.large_model, output |-> flag.output,
     output_frozen_graph |-> flag.output_frozen_graph,
     continue_on_error |-> flag.continue_on_error, dequantize |-> flag.dequantize,
     custom_ops |-> ops.custom_ops, extra_opset |-> ops.extra_opset]

ArgvSet(Sels, IOs, Rens, Flags, Ops) ==
    {MkArgv(sel, io, ren, flag, ops) :
        sel \in Sels, io \in IOs, ren \in Rens, flag \in Flags, ops \in Ops}

\* every combination of the source selectors
AllSelectors ==
    [input : Path("frozen.pb"), graphdef : Path("graph.pb"),
     checkpoint : Path("ckpt.meta"), saved_model : Path("saved_model_dir"),
     keras : Path("model.h5"), tflite : Path("model.tflite")]

NoSelector == [f \in DOMAIN CHOOSE s \in AllSelectors : TRUE |-> None]
Only(field, p) == [NoSelector EXCEPT ![field] = p]

SomeSelectors ==
    {NoSelector, Only("graphdef", "graph.pb"), Only("saved_model", "saved_model_dir"),
     Only("tflite", "model.tflite")}

NoIO == [inputs |-> NoneV, outputs |-> NoneV]
BothIO == [inputs |-> Some(<<"x">>), outputs |-> Some(<<"y">>)]
InputsOnly == [inputs |-> Some(<<"x">>), outputs |-> NoneV]

NoRename == [rename_inputs |-> NoneV, rename_outputs |-> NoneV]
OneRename == [rename_inputs |-> Some(<<"a">>), rename_outputs |-> NoneV]

AllFlags ==
    [large_model : BOOLEAN, output : Path("model.onnx"),
     output_frozen_graph : Path("frozen_out.pb"), continue_on_error : BOOLEAN,
     dequantize : BOOLEAN]
PlainFlags ==
    [large_model |-> FALSE, output |-> "model.onnx", output_frozen_graph |-> None,
     continue_on_error |-> FALSE, dequantize |-> FALSE]

NoOps == [custom_ops |-> NoneV, extra_opset |-> NoneV]

CustomOpsAtoms == {"Foo", "Bar", "com.acme", ":", ","}
ExtraOpsetAtoms == {"com.acme", "ai.onnx.converters.tensorflow", "1", "2", ":"}
RenameInputsAtoms == {"a", ","}
RenameOutputsAtoms == {"b", ","}
InputNames == {<<"x">>, <<"y">>}
OutputNames == {<<"x">>}
SignatureNames == {<<"s">>}

Lists(S, n) == UNION {[1..k -> S] : k \in 0..n}

Range(l) == {l[i] : i \in 1..Len(l)}

\* renames a signature gives: at most one of its tensors gets a declared name
SigRenames(names) ==
    {EmptyDict} \cup {Put(EmptyDict, k, v) : k \in names, v \in SignatureNames}

PlainModel ==
    [sig_inputs |-> <<<<"x">>>>, sig_outputs |-> <<<<"y">>>>, sig_renames |-> EmptyDict]

Models ==
    UNION {
        {[sig_inputs |-> ins, sig_outputs |-> outs, sig_renames |-> r] :
            r \in SigRenames(Range(ins) \cup Range(outs))} :
        ins \in Lists(InputNames, MaxInputs), outs \in Lists(OutputNames, MaxOutputs)}

\* every combination of source selectors, with and without --inputs/--outputs
SourceRuns ==
    ArgvSet(AllSelectors, {NoIO, BothIO, InputsOnly}, {NoRename, OneRename},
            {PlainFlags, [PlainFlags EXCEPT !.large_model = TRUE]}, {NoOps})
        \X {PlainModel}

\* every combination of the flags
FlagRuns ==
    ArgvSet(SomeSelectors, {BothIO}, {NoRename}, AllFlags,
            {NoOps,
             [custom_ops |-> Some(<<"Foo">>), extra_opset |-> Some(<<"com.acme", ":", "1">>)],
             [custom_ops |-> Some(<<"Foo", ":", "com.acme", ":", "Bar">>),
              extra_opset |-> NoneV],
             [custom_ops |-> NoneV, extra_opset |-> Some(<<"com.acme">>)],
             [custom_ops |-> NoneV, extra_opset |-> Some(<<"com.acme", ":", "Foo">>)]})
        \X {PlainModel}

\* every --custom-ops string, and every --extra_opset string
ResolverRuns ==
    (ArgvSet({Only("tflite", "model.tflite")}, {NoIO}, {NoRename}, {PlainFlags},
             [custom_ops : Opt(Strings(CustomOpsAtoms, MaxCustomOpsLen)),
              extra_opset : {NoneV, Some(<<"ai.onnx.converters.tensorflow", ":", "2">>)}])
        \cup
     ArgvSet({Only("tflite", "model.tflite")}, {NoIO}, {NoRename}, {PlainFlags},
             [custom_ops : {NoneV, Some(<<"Foo">>), Some(<<"Foo", ":", "com.acme">>)},
              extra_opset : Opt(Strings(ExtraOpsetAtoms, MaxExtraOpsetLen))]))
        \X {PlainModel}

\* every --rename-inputs and --rename-outputs string against every signature
RenameRuns ==
    ArgvSet({Only("saved_model", "saved_model_dir")}, {NoIO},
            [rename_inputs : Opt(Strings(RenameInputsAtoms, MaxRenameInputsLen)),
             rename_outputs : Opt(Strings(RenameOutputsAtoms, MaxRenameOutputsLen))],
            {PlainFlags}, {NoOps})
        \X Models

InitWith(Runs) ==
    /\ \E run \in Runs : argv = run[1] /\ model = run[2]
    /\ pc = "get_args"
    /\ args = argv
    /\ extra_opset = <<>>
    /\ tflite_path = None
    /\ custom_ops = EmptyDict
    /\ initialized_tables = None
    /\ tensors_to_rename = EmptyDict
    /\ graph_def = "unbound"
    /\ inputs = NoneV
    /\ outputs = NoneV
    /\ model_path = "unbound"
    /\ tf_graph = None
    /\ const_node_values = None
    /\ tensor_storage = None
    /\ model_proto = None
    /\ loader_calls = <<>>
    /\ branches = {}
    /\ origin = [n \in {"graph_def", "inputs", "outputs", "initialized_tables",
                        "tensors_to_rename"} |-> "default"]
    /\ compress_calls = <<>>
    /\ imported = FALSE
    /\ dispatched = <<>>
    /\ writes = <<>>
    /\ exit_code = "running"
    /\ exit_reason = "running"

Init == InitWith(SourceRuns \cup FlagRuns)
InitResolver == InitWith(SourceRuns \cup FlagRuns \cup ResolverRuns)
InitRename == InitWith(SourceRuns \cup FlagRuns \cup RenameRuns)

Next ==
    \/ GetArgs
    \/ CustomOps
    \/ LoadGraphdef
    \/ LoadCheckpoint
    \/ LoadSavedModel
    \/ LoadKeras
    \/ LoadTflite
    \/ Rename
    \/ PrepareGraph
    \/ Convert
    \/ MakeModel
    \/ WriteOutput

Spec == Init /\ [][Next]_vars
SpecResolver == InitResolver /\ [][Next]_vars
SpecRename == InitRename /\ [][Next]_vars

-----------------------------------------------------------------------------
(* Properties of the rename cascade *)

\* process_tf_graph has been called, and with these arguments
Dispatched == dispatched # <<>>
Call == dispatched[1]

\* the renames the source loader returned from signature metadata
SignatureRenames == IF Given(args.saved_model) THEN model.sig_renames ELSE EmptyDict

Min(m, n) == IF m <= n THEN m ELSE n
Max(S) == CHOOSE m \in S : \A n \in S : n <= m

\* positions at which the positional pairing of olds with news renames k
Pairings(olds, news, k) == {i \in 1..Min(Len(olds), Len(news)) : olds[i] = k}

\* the new name an explicit rename list gives k: that of its last pairing
Paired(olds, news, k) == news[Max(Pairings(olds, news, k))]

InputRenamed(k) ==
    Truthy(args.rename_inputs) /\ Pairings(inputs.v, args.rename_inputs.v, k) # {}
OutputRenamed(k) ==
    Truthy(args.rename_outputs) /\ Pairings(outputs.v, args.rename_outputs.v, k) # {}

InputRename(k) == Paired(inputs.v, args.rename_inputs.v, k)
OutputRename(k) == Paired(outputs.v, args.rename_outputs.v, k)

RenamedNames ==
    (DOMAIN SignatureRenames)
        \cup {k \in Range(inputs.v) : InputRenamed(k)}
        \cup {k \in Range(outputs.v) : OutputRenamed(k)}

\* C1 as the spec states it: the rename map handed to conversion merges the
\* signature renames, the --rename-outputs pairs and the --rename-inputs pairs,
\* and for a name in several of them the explicit input rename wins over the
\* explicit output rename, which wins over the signature rename.
C1_InputRenamesWin ==
    Dispatched =>
        /\ DOMAIN Call.tensors_to_rename = RenamedNames
        /\ \A k \in RenamedNames :
              Call.tensors_to_rename[k] =
                  IF InputRenamed(k) THEN InputRename(k)
                  ELSE IF OutputRenamed(k) THEN OutputRename(k)
                  ELSE SignatureRenames[k]

\* C1 amended: the rename map handed to conversion merges the signature renames,
\* the --rename-inputs pairs and the --rename-outputs pairs, and for a name in
\* several of them the explicit output rename wins over the explicit input
\* rename, which wins over the signature rename.
C1_OutputRenamesWin ==
    Dispatched =>
        /\ DOMAIN Call.tensors_to_rename = RenamedNames
        /\ \A k \in RenamedNames :
              Call.tensors_to_rename[k] =
                  IF OutputRenamed(k) THEN OutputRename(k)
                  ELSE IF InputRenamed(k) THEN InputRename(k)
                  ELSE SignatureRenames[k]

\* a name that the signature, --rename-inputs and --rename-outputs all rename,
\* each to another name, has reached conversion
C1_Witness ==
    /\ Dispatched
    /\ \E k \in DOMAIN SignatureRenames :
          /\ InputRenamed(k) /\ OutputRenamed(k)
          /\ InputRename(k) # OutputRename(k)
          /\ SignatureRenames[k] \notin {InputRename(k), OutputRename(k)}

\* C2: in the rename map handed to conversion no two distinct old names map to
\* the same new name.
C2_NoRenameCollision ==
    Dispatched =>
        \A k1, k2 \in DOMAIN Call.tensors_to_rename :
            k1 # k2 => Call.tensors_to_rename[k1] # Call.tensors_to_rename[k2]

\* the renames of lines 191-194 have been made without an exception
RenameDone == pc \in {"graph", "convert", "make_model", "write", "done"} \/ Dispatched

\* C3: a rename map is only produced from a --rename-inputs list as long as the
\* inputs and a --rename-outputs list as long as the outputs.
C3_RenameCountsMatch ==
    RenameDone =>
        /\ Truthy(args.rename_inputs) => Len(args.rename_inputs.v) = Len(inputs.v)
        /\ Truthy(args.rename_outputs) => Len(args.rename_outputs.v) = Len(outputs.v)

-----------------------------------------------------------------------------
(* Properties of the custom operator resolver *)

\* the tokens of --custom-ops
CustomOpTokens ==
    IF Truthy(argv.custom_ops) THEN Split(argv.custom_ops.v, ",") ELSE <<>>

FirstColon(t) == CHOOSE i \in 1..Len(t) : t[i] = ":" /\ \A j \in 1..(i - 1) : t[j] # ":"

\* a token names its domain
Explicit(t) == Contains(t, ":")

TokenName(t) == IF Explicit(t) THEN SubSeq(t, 1, FirstColon(t) - 1) ELSE t
TokenDomain(t) ==
    IF Explicit(t) THEN SubSeq(t, FirstColon(t) + 1, Len(t)) ELSE TENSORFLOW_DOMAIN

TokenIndexes == 1..Len(CustomOpTokens)
SomeTokenImplicit == \E i \in TokenIndexes : ~Explicit(CustomOpTokens[i])

\* the extension set passed to conversion has an entry of the fallback domain
HasFallbackExtension ==
    \E i \in 1..Len(Call.extra_opset) : Call.extra_opset[i].domain = TENSORFLOW_DOMAIN

\* the extensions the user gave with --extra_opset
UserExtensions == IF Truthy(args.extra_opset) THEN args.extra_opset.v ELSE <<>>

\* C4 as the spec states it: every --custom-ops token without a domain is bound
\* under the fallback domain in the bindings passed to conversion, every token
\* name:domain is bound to its domain, and the extension set passed to
\* conversion has the fallback domain iff some token had no domain.
C4_TokensBoundAsWritten ==
    Dispatched =>
        /\ \A i \in TokenIndexes :
              /\ TokenName(CustomOpTokens[i]) \in DOMAIN Call.custom_op_handlers
              /\ Call.custom_op_handlers[TokenName(CustomOpTokens[i])]
                     = TokenDomain(CustomOpTokens[i])
        /\ HasFallbackExtension <=> SomeTokenImplicit

\* C4 amended: the bindings passed to conversion bind exactly the operator names
\* of the tokens, each to the domain of the last token of that name (the
\* fallback domain when that token names none); the resolver appends the
\* fallback extension after the user's extensions iff some token had no domain,
\* so that the extension set has the fallback domain iff some token had no
\* domain or --extra_opset named that domain.
C4_LastTokenBinds ==
    Dispatched =>
        /\ DOMAIN Call.custom_op_handlers
               = {TokenName(CustomOpTokens[i]) : i \in TokenIndexes}
        /\ \A i \in TokenIndexes :
              (\A j \in TokenIndexes :
                    j > i => TokenName(CustomOpTokens[j]) # TokenName(CustomOpTokens[i]))
                  => Call.custom_op_handlers[TokenName(CustomOpTokens[i])]
                         = TokenDomain(CustomOpTokens[i])
        /\ Call.extra_opset
               = IF SomeTokenImplicit THEN Append(UserExtensions, TENSORFLOW_OPSET)
                 ELSE UserExtensions
        /\ HasFallbackExtension
               <=> \/ SomeTokenImplicit
                   \/ \E i \in 1..Len(UserExtensions) :
                         UserExtensions[i].domain = TENSORFLOW_DOMAIN

\* conversion was reached with an operator named first without and then with a
\* domain, and with another operator bound under the fallback domain
C4_Witness ==
    /\ Dispatched
    /\ \E i, j \in TokenIndexes :
          /\ i < j
          /\ ~Explicit(CustomOpTokens[i]) /\ Explicit(CustomOpTokens[j])
          /\ TokenName(CustomOpTokens[i]) = TokenName(CustomOpTokens[j])
          /\ Call.custom_op_handlers[TokenName(CustomOpTokens[i])] # TENSORFLOW_DOMAIN
    /\ HasFallbackExtension

\* C5: the extension set passed to conversion has at most one entry per domain,
\* and an extension the user gave for the fallback domain is the one that stays.
C5_OneExtensionPerDomain ==
    Dispatched =>
        /\ \A i, j \in 1..Len(Call.extra_opset) :
              i # j => Call.extra_opset[i].domain # Call.extra_opset[j].domain
        /\ \A i \in 1..Len(UserExtensions) :
              \E j \in 1..Len(Call.extra_opset) : Call.extra_opset[j] = UserExtensions[i]

-----------------------------------------------------------------------------
(* Properties of the source branches *)

\* C6: a run that reaches conversion took exactly one source branch, called at
\* most one loader, and every local handed to conversion that a source branch
\* assigned was assigned by that one branch.
C6_OneSourceKind ==
    Dispatched =>
        /\ Cardinality(branches) = 1
        /\ Len(loader_calls) <= 1
        /\ \A n \in DOMAIN origin : origin[n] \in branches \cup {"default"}

\* C10: at the call of process_tf_graph exactly one of the graph and the tflite
\* path is present: with --tflite the graph, the inputs and the outputs are None,
\* the tflite path is set and neither compress_graph_def nor import_graph_def
\* ran; without it the tflite path is None and a graph is present.
C10_GraphOrTflitePath ==
    Dispatched =>
        /\ (Call.tf_graph # None) # (Call.tflite_path # None)
        /\ Given(args.tflite) =>
              /\ Call.tf_graph = None
              /\ Call.input_names = NoneV /\ Call.output_names = NoneV
              /\ Call.tflite_path = args.tflite
              /\ compress_calls = <<>> /\ ~imported
        /\ ~Given(args.tflite) =>
              /\ Call.tflite_path = None
              /\ Call.tf_graph # None /\ imported

\* conversion was reached with --tflite and --saved-model in large model mode
C10_Witness ==
    /\ Dispatched
    /\ Given(args.tflite) /\ Given(args.saved_model) /\ args.large_model
    /\ "saved_model" \in branches

-----------------------------------------------------------------------------
(* Properties of the packaging *)

\* the ONNX files written
OnnxWrites == SelectSeq(writes, LAMBDA w : w.kind # "frozen_graph")

\* C7: in large model mode the model is only ever written as a zip with its
\* tensor store, once when --output is given, and the compressor runs on the
\* graph imported; otherwise the compressor is never called, no tensor store is
\* created and the model is only ever written as one protobuf file, once when
\* --output is given.
C7_LargeModelPackaging ==
    /\ argv.large_model =>
          /\ \A i \in 1..Len(OnnxWrites) :
                OnnxWrites[i].kind = "onnx_zip" /\ OnnxWrites[i].storage # None
          /\ imported => Len(compress_calls) = 1
          /\ pc = "done" => tensor_storage # None
    /\ ~argv.large_model =>
          /\ \A i \in 1..Len(OnnxWrites) :
                OnnxWrites[i].kind = "onnx_protobuf" /\ OnnxWrites[i].storage = None
          /\ compress_calls = <<>> /\ const_node_values = None
          /\ tensor_storage = None
    /\ pc = "done" => Len(OnnxWrites) = IF Given(argv.output) THEN 1 ELSE 0
    /\ pc # "done" => OnnxWrites = <<>>

\* a large model run ended with its graph compressed and its zip written
C7_Witness ==
    /\ pc = "done" /\ argv.large_model
    /\ compress_calls # <<>>
    /\ \E i \in 1..Len(writes) : writes[i].kind = "onnx_zip"

\* the run was aborted
Aborted == pc = "exit"

\* C8 as the spec states it: an aborted run has written no file.
C8_NothingWrittenOnAbort == Aborted => writes = <<>>

\* C8 amended: an aborted run has not written the ONNX model, and a run aborted
\* by get_args, by the custom operator resolver, by a loader or by the renames
\* has written no file; the file of --output_frozen_graph is written before
\* conversion and stays when conversion or the save fails.
C8_NoModelWrittenOnAbort ==
    /\ Aborted => \A i \in 1..Len(writes) : writes[i].kind = "frozen_graph"
    /\ Aborted /\ exit_reason \notin {"conversion_error", "size_exceeded"}
          => writes = <<>>
    /\ writes # <<>> => pc \in {"convert", "make_model", "write", "done", "exit"}

\* conversion failed after the frozen graph was written
C8_Witness ==
    /\ Aborted /\ exit_reason = "conversion_error"
    /\ \E i \in 1..Len(writes) : writes[i].kind = "frozen_graph"

-----------------------------------------------------------------------------
(* Properties of get_args *)

NoSourceSelector ==
    \A f \in {"input", "graphdef", "checkpoint", "saved_model", "keras", "tflite"} :
        ~Given(argv[f])

NamesMissing ==
    /\ Given(argv.input) \/ Given(argv.graphdef) \/ Given(argv.checkpoint)
    /\ ~Truthy(argv.inputs) \/ ~Truthy(argv.outputs)

Colons(s) == Cardinality({i \in 1..Len(s) : s[i] = ":"})

\* the process ended with an error status before any source was looked at
EndedBeforeLoading ==
    /\ pc = "exit" /\ exit_code \in {"1", "2"}
    /\ exit_reason \in {"usage", "parser_error", "value_error"}
    /\ NoSourceSelector => exit_reason = "usage"
    /\ loader_calls = <<>> /\ branches = {} /\ graph_def = "unbound"
    /\ dispatched = <<>> /\ writes = <<>>

\* C9 as the spec states it: get_args ends the run, before any loader is called
\* and any model read, when no source selector is given, when --inputs or
\* --outputs is missing for a graphdef or a checkpoint, and when the value of
\* --extra_opset is not exactly two colon separated tokens.
C9_ConfigErrorsEndRun ==
    pc # "get_args"
        /\ (\/ NoSourceSelector
            \/ NamesMissing
            \/ argv.extra_opset.some /\ Colons(argv.extra_opset.v) # 1)
        => EndedBeforeLoading

\* C9 amended: the same, for a value of --extra_opset that is not empty; an empty
\* value is taken as no --extra_opset at all.
C9_ConfigErrorsEndRunNonEmpty ==
    /\ pc # "get_args"
           /\ (\/ NoSourceSelector
               \/ NamesMissing
               \/ Truthy(argv.extra_opset) /\ Colons(argv.extra_opset.v) # 1)
           => EndedBeforeLoading
    /\ exit_reason \in {"usage", "parser_error", "value_error"} => EndedBeforeLoading

\* get_args has rejected an --extra_opset without a colon given with a source
C9_Witness ==
    /\ pc = "exit" /\ exit_reason = "parser_error"
    /\ ~NoSourceSelector /\ ~NamesMissing
    /\ Truthy(argv.extra_opset) /\ Colons(argv.extra_opset.v) = 0

====
